---- MODULE Spec2Model ----
(***************************************************************************)
(* Cortex: the ingester write-ahead log (pkg/ingester/wal.go) and the      *)
(* query-range splitter, fan-out and merger                                *)
(* (pkg/querier/frontend/split_by_day.go).                                 *)
(*                                                                         *)
(* The module holds these specifications over one set of variables:        *)
(*   SpecSplit   splitQuery / nextDayBoundary on bounded range queries     *)
(*   SpecMerge   sort.Sort(byFirstTime) + vectorMerge / matrixMerge        *)
(*   SpecDo      splitByDay.Do: the goroutines, the channel, the gather    *)
(*               loop                                                      *)
(*   SpecWal     the WAL wrapper: Log, run, checkpoint, truncateSamples,   *)
(*               Stop, newWAL / recover, and a process crash               *)
(*   SpecPass    run, checkpoint, truncateSamples and Stop on a memory     *)
(*               store of up to MaxPassSeries series                       *)
(*   SpecStop    the same loop with the fairness of its goroutines         *)
(*   SpecRecover wrapper.recover on bounded contents of the two logs       *)
(* Each specification leaves the other parts' variables at their idle      *)
(* values.                                                                 *)
(***************************************************************************)
EXTENDS Integers, Sequences, FiniteSets, TLC

VARIABLES
    \* ---- splitter (splitQuery) ----
    q,          \* the queryRangeRequest handed to splitQuery / Do
    reqs,       \* the sub-queries splitQuery returned
    spc,        \* "idle" (not called) | "ready" (input chosen) | "done"
    \* ---- fan-out and merge (splitByDay.Do) ----
    down,       \* downstream.Do's answer to sub-query i when it is not cancelled
    task,       \* goroutine i: "running" | "sending" | "done"
    out,        \* goroutine i: the (resp, err) it got from downstream.Do
    cancelled,  \* the context of Do has been cancelled
    firstErr,   \* Do's firstErr
    responses,  \* Do's responses, in arrival order
    received,   \* iterations of the gather loop done
    dopc,       \* Do: "idle" | "gather" | "returned" | "panicked"
    ret,        \* what Do returned: [resp, err]
    errsSeen,   \* history: the errors the gather loop received, in order
    prevRet,    \* history: what the previous call of Do returned
    calls,      \* history: calls of Do started
    \* ---- WAL (wrapper) ----
    life,       \* "down": no wrapper (process just started) | "up": newWAL returned
    mem,        \* the ingester's userStates: fingerprint -> samples of the series
    inflight,   \* Records logged whose samples are not yet in userStates
    nextId,     \* the next sample's identity
    smpLog,     \* the Sample Log on disk: <<[seg, rec]>> in append order
    smpFirst,   \* samples.Segments(): first
    smpLast,    \* samples.Segments(): last
    cpLog,      \* the Checkpoint Log on disk: <<[seg, fp, chunks]>>
    cpFirst,    \* checkpoints.Segments(): first
    cpLast,     \* checkpoints.Segments(): last
    lastCheckpointSegment,
    lastSamplesSegment,
    quit,       \* w.quit is closed
    runpc,      \* the run goroutine's place
    todo,       \* series the current checkpoint pass has still to write
    cur,        \* the series being checkpointed (0: none)
    cpErr,      \* checkpointSeries returned an error
    lastRead,   \* the local `last` of checkpoint / truncateSamples
    fpLock,     \* the fingerprints whose lock the checkpointer holds
    stoppc,     \* Stop: "idle" | "waiting" | "returned" | "panicked"
    closed,     \* both logs are closed
    newResult,  \* what newWAL returned: "none" | "ok" | "error"
    recoverFailed, \* history: w.recover returned an error in this newWAL
    crashes,    \* history: process crashes so far
    passStart,  \* history: smpLast when the current pass started (-1: none)
    prevStart,  \* history: smpLast when the previous pass started (-1: none)
    okStart,    \* history: passStart of the last earlier pass whose truncateSamples succeeded
    passSeg,    \* history: segment of the first entry the current pass wrote (-1: none)
    fullSeg,    \* history: passSeg of the last pass that wrote all its entries
    doneSeg,    \* history: passSeg of the last pass whose checkpoint() returned nil
    \* ---- recovery on its own (wrapper.recover) ----
    recpc,      \* "idle" | "ready" | "once" | "twice": runs of recover so far
    recFirst    \* history: the userStates the first run installed

splitVars == <<q, reqs, spc>>
doVars == <<down, task, out, cancelled, firstErr, responses, received, dopc,
            ret, errsSeen, prevRet, calls>>

diskVars == <<smpLog, smpFirst, smpLast, cpLog, cpFirst, cpLast>>
markVars == <<lastCheckpointSegment, lastSamplesSegment>>
passVars == <<todo, cur, cpErr, lastRead, fpLock>>
histVars == <<passStart, prevStart, okStart>>
cpHist == <<passSeg, fullSeg, doneSeg>>
recVars == <<recpc, recFirst>>
lifeVars == <<life, stoppc, closed, newResult, recoverFailed, crashes>>
walVars == <<life, mem, inflight, nextId, smpLog, smpFirst, smpLast, cpLog,
             cpFirst, cpLast, lastCheckpointSegment, lastSamplesSegment, quit,
             runpc, todo, cur, cpErr, lastRead, fpLock, stoppc, closed,
             newResult, recoverFailed, crashes, passStart, prevStart, okStart,
             passSeg, fullSeg, doneSeg, recpc, recFirst>>

vars == <<q, reqs, spc, down, task, out, cancelled, firstErr, responses,
          received, dopc, ret, errsSeen, prevRet, calls, life, mem, inflight,
          nextId, smpLog, smpFirst, smpLast, cpLog, cpFirst, cpLast,
          lastCheckpointSegment, lastSamplesSegment, quit, runpc, todo, cur,
          cpErr, lastRead, fpLock, stoppc, closed, newResult, recoverFailed,
          crashes, passStart, prevStart, okStart, passSeg, fullSeg, doneSeg,
          recpc, recFirst>>

----------------------------------------------------------------------------
(* Values shared by the parts *)

\* Go errors: a message and, for a downstream failure, the sub-query it is of.
NoErr == [msg |-> "nil", sub |-> 0]
ErrCanceled == [msg |-> "context canceled", sub |-> 0]
ErrDownstream(i) == [msg |-> "downstream", sub |-> i]
ErrUnexpected == [msg |-> "unexpected response type", sub |-> 0]

\* A nil *apiResponse.
NilResp == [ResultType |-> "none"]

\* No return value yet.
NoRet == [resp |-> NilResp, err |-> [msg |-> "none", sub |-> 0]]

\* The permutations of a finite set, as sequences.
Perms(S) ==
    {f \in [1..Cardinality(S) -> S] : \A i, j \in DOMAIN f : i # j => f[i] # f[j]}

\* The wrapper before newWAL is called.
WalQuiet ==
    /\ life = "down"
    /\ inflight = {}
    /\ nextId = 1
    /\ smpFirst = 0
    /\ smpLast = 0
    /\ cpFirst = 0
    /\ cpLast = 0
    /\ lastCheckpointSegment = 0
    /\ lastSamplesSegment = 0
    /\ quit = FALSE
    /\ runpc = "off"
    /\ todo = {}
    /\ cur = 0
    /\ cpErr = FALSE
    /\ lastRead = 0
    /\ fpLock = {}
    /\ stoppc = "idle"
    /\ closed = FALSE
    /\ newResult = "none"
    /\ recoverFailed = FALSE
    /\ crashes = 0
    /\ passStart = -1
    /\ prevStart = -1
    /\ okStart = -1
    /\ passSeg = -1
    /\ fullSeg = -1
    /\ doneSeg = -1
    /\ recFirst = <<>>

\* The WAL part before newWAL is called, on an empty directory.
WalIdle ==
    /\ WalQuiet
    /\ recpc = "idle"
    /\ mem = <<>>
    /\ smpLog = <<>>
    /\ cpLog = <<>>

\* Go's min/max on ints
Max(a, b) == IF a >= b THEN a ELSE b
Min(a, b) == IF a <= b THEN a ELSE b

----------------------------------------------------------------------------
(* Merger: split_by_day.go:71-86, 114-158 *)

\* model.Metric: a label set, as a set of <<name, value>> pairs.
LabelOrder == <<"__name__", "job">>

M0 == {}
M1 == {<<"job", "a">>}
M2 == {<<"__name__", "up">>, <<"job", "a">>}

\* model.Metric.String(): the label pairs in ascending label-name order.
RECURSIVE metricPairs(_, _)
metricPairs(m, names) ==
    IF names = <<>> THEN <<>>
    ELSE LET here == {p \in m : p[1] = Head(names)}
         IN  (IF here = {} THEN <<>> ELSE <<CHOOSE p \in here : TRUE>>)
             \o metricPairs(m, Tail(names))

MetricString(m) == metricPairs(m, LabelOrder)

\* A nil *model.SampleStream.
NilStream == [isNil |-> TRUE]

\* sort.Sort(byFirstTime(responses)): insertion by a[i].req.start < a[j].req.start.
\* The sub-queries of one request have distinct starts, so every sorting
\* algorithm returns this order.
RECURSIVE insertByFirstTime(_, _)
insertByFirstTime(r, sorted) ==
    IF sorted = <<>> THEN <<r>>
    ELSE IF r.req.start < Head(sorted).req.start THEN <<r>> \o sorted
    ELSE <<Head(sorted)>> \o insertByFirstTime(r, Tail(sorted))

RECURSIVE sortByFirstTime(_)
sortByFirstTime(rs) ==
    IF rs = <<>> THEN <<>>
    ELSE insertByFirstTime(Head(rs), sortByFirstTime(Tail(rs)))

RECURSIVE concatResults(_)
concatResults(resps) ==
    IF resps = <<>> THEN <<>>
    ELSE Head(resps).resp.Result \o concatResults(Tail(resps))

\* resp.resp.Data.Result.(T) panics on a response of another type.
AllOfType(resps, ty) == \A i \in 1..Len(resps) : resps[i].resp.ResultType = ty

PanicRet == [resp |-> NilResp, err |-> [msg |-> "panic: interface conversion", sub |-> 0]]

vectorMerge(resps) ==
    IF ~AllOfType(resps, "vector") THEN PanicRet
    ELSE [resp |-> [ResultType |-> "vector", Result |-> concatResults(resps)],
          err |-> NoErr]

\* A matrixMerge that keeps the first stream of a label set and forgets to
\* append the later ones.
mergeStreamKeepFirst(output, stream) ==
    LET metric == MetricString(stream.metric)
    IN  IF metric \in DOMAIN output
        THEN output
        ELSE output @@ (metric :> stream)

\* The loop body of matrixMerge, lines 137-145: the first stream of a label
\* set is kept, the values of the later ones are appended to it.
mergeStream(output, stream) ==
    LET metric == MetricString(stream.metric)
    IN  IF metric \in DOMAIN output
        THEN [output EXCEPT ![metric].values = @ \o stream.values]
        ELSE output @@ (metric :> stream)

RECURSIVE mergeStreams(_, _)
mergeStreams(output, streams) ==
    IF streams = <<>> THEN output
    ELSE mergeStreams(mergeStream(output, Head(streams)), Tail(streams))

\* matrixMerge's output map after the loops of lines 135-146.
matrixOutput(resps) == mergeStreams(<<>>, concatResults(resps))

\* Lines 148-151: make(model.Matrix, len(output)) holds len(output) nil
\* entries, and append adds the streams after them.
matrixResult(output, order) ==
    [i \in 1..Cardinality(DOMAIN output) |-> NilStream]
        \o [i \in 1..Len(order) |-> output[order[i]]]

\* `order` is the order in which Go's range walks the output map: any one.
matrixMerge(resps, order) ==
    IF ~AllOfType(resps, "matrix") THEN PanicRet
    ELSE [resp |-> [ResultType |-> "matrix",
                    Result |-> matrixResult(matrixOutput(resps), order)],
          err |-> NoErr]

\* The map iteration orders matrixMerge can meet on these responses.
MapOrders(rs) ==
    IF rs # <<>> /\ AllOfType(rs, "matrix")
    THEN Perms(DOMAIN matrixOutput(sortByFirstTime(rs)))
    ELSE {<<>>}

\* Do, lines 71-85.
mergeResponses(rs, order) ==
    LET sorted == sortByFirstTime(rs)
    IN  IF Len(sorted) = 0
        THEN [resp |-> [ResultType |-> "", Result |-> <<>>], err |-> NoErr]
        ELSE CASE sorted[1].resp.ResultType = "vector" -> vectorMerge(sorted)
               [] sorted[1].resp.ResultType = "matrix" -> matrixMerge(sorted, order)
               [] OTHER -> [resp |-> NilResp, err |-> ErrUnexpected]

----------------------------------------------------------------------------
(* Splitter: split_by_day.go:14, 88-112 *)

millisecondPerDay == 86400000

\* One hour in milliseconds: the grain of the enumerated inputs.
Hour == millisecondPerDay \div 24

MaxStartHours == 30
MaxSpanHours == 52
MaxStepHours == 7

\* Round up to the step before the next day boundary (int64 arithmetic; the
\* enumerated times are non-negative and far below 2^63).
nextDayBoundary(t, step) ==
    LET offsetToDayBoundary == step - ((t % millisecondPerDay) % step)
        t2 == ((t \div millisecondPerDay) + 1) * millisecondPerDay
    IN  t2 - offsetToDayBoundary

\* The body of splitQuery's for loop, from the running start on.
RECURSIVE splitFrom(_, _)
splitFrom(start, r) ==
    IF start < r.end
    THEN LET nd  == nextDayBoundary(start, r.step)
             end == IF nd + r.step >= r.end THEN r.end ELSE nd
         IN  <<[path |-> r.path, start |-> start, end |-> end,
                step |-> r.step, query |-> r.query]>>
             \o splitFrom(nd + r.step, r)
    ELSE <<>>

splitQuery(r) == splitFrom(r.start, r)

\* A range query's step-sample set {s, s+step, ..., <= e}.
StepSet(s, e, step) ==
    IF s > e THEN {} ELSE {s + k * step : k \in 0..((e - s) \div step)}

SplitQueries ==
    {[path |-> "/api/v1/query_range", start |-> sh * Hour,
      end |-> (sh + span) * Hour, step |-> st * Hour, query |-> "up"] :
        sh \in 0..MaxStartHours, span \in 0..MaxSpanHours, st \in 1..MaxStepHours}

\* The fan-out part before Do is called.
DoIdle ==
    /\ down = <<>>
    /\ task = <<>>
    /\ out = <<>>
    /\ cancelled = FALSE
    /\ firstErr = NoErr
    /\ responses = <<>>
    /\ received = 0
    /\ dopc = "idle"
    /\ ret = NoRet
    /\ errsSeen = <<>>
    /\ prevRet = NoRet
    /\ calls = 0

InitSplit ==
    /\ q \in SplitQueries
    /\ reqs = <<>>
    /\ spc = "ready"
    /\ DoIdle
    /\ WalIdle

\* reqs := splitQuery(r)
SplitQuery ==
    /\ spc = "ready"
    /\ reqs' = splitQuery(q)
    /\ spc' = "done"
    /\ UNCHANGED <<q, doVars, walVars>>

NextSplit == SplitQuery

SpecSplit == InitSplit /\ [][NextSplit]_vars

\* C2: for step > 0 and start <= end the sub-queries' step-sample sets are
\* pairwise disjoint and their union is the step-sample set of the query.
C2_SplitCoverage ==
    spc = "done" =>
        /\ UNION {StepSet(reqs[i].start, reqs[i].end, reqs[i].step) :
                    i \in 1..Len(reqs)} = StepSet(q.start, q.end, q.step)
        /\ \A i, j \in 1..Len(reqs) :
              i # j => StepSet(reqs[i].start, reqs[i].end, reqs[i].step)
                         \cap StepSet(reqs[j].start, reqs[j].end, reqs[j].step) = {}


----------------------------------------------------------------------------
(* Fan-out: splitByDay.Do, split_by_day.go:26-86 *)

MaxDays == 3
MaxCalls == 2

\* Requests of 0, 1, ... MaxDays sub-queries.
DoQueries ==
    {[path |-> "/api/v1/query_range", start |-> 0,
      end |-> d * millisecondPerDay, step |-> 6 * Hour, query |-> "up"] :
        d \in 0..MaxDays}

\* The values of stream j of sub-query i's answer: two samples, as in
\* [(0,0),(1,1)] and [(2,2),(3,3)].
Values(i, j) ==
    <<[t |-> 2 * (i - 1), v |-> 2 * (i - 1) + 10 * (j - 1)],
      [t |-> 2 * (i - 1) + 1, v |-> 2 * (i - 1) + 1 + 10 * (j - 1)]>>

Matrix(i, shape) ==
    [j \in 1..Len(shape) |-> [metric |-> shape[j], values |-> Values(i, j)]]

\* What the downstream answers to sub-query i.
Answer(i, c) ==
    CASE c.kind = "error" -> [resp |-> NilResp, err |-> ErrDownstream(i)]
      [] c.kind = "vector" ->
            [resp |-> [ResultType |-> "vector",
                       Result |-> <<[metric |-> M0, t |-> i, v |-> i]>>],
             err |-> NoErr]
      [] c.kind = "matrix" ->
            [resp |-> [ResultType |-> "matrix", Result |-> Matrix(i, c.shape)],
             err |-> NoErr]
      [] OTHER ->
            [resp |-> [ResultType |-> "scalar", Result |-> <<[t |-> i, v |-> i]>>],
             err |-> NoErr]

Kinds(ks) == {[kind |-> k, shape |-> <<>>] : k \in ks}
Shapes(shs) == {[kind |-> "matrix", shape |-> sh] : sh \in shs}

DoChoices ==
    Kinds({"error", "vector", "scalar"}) \cup Shapes({<<M0>>, <<M0, M1>>})

MergeChoices ==
    Kinds({"vector", "scalar"})
    \cup Shapes({<<>>, <<M0>>, <<M1>>, <<M0, M1>>, <<M1, M0>>, <<M0, M0>>,
                 <<M2, M1>>})

InitDo ==
    /\ q \in DoQueries
    /\ reqs = <<>>
    /\ spc = "idle"
    /\ down \in [1..Len(splitQuery(q)) -> DoChoices]
    /\ task = <<>>
    /\ out = <<>>
    /\ cancelled = FALSE
    /\ firstErr = NoErr
    /\ responses = <<>>
    /\ received = 0
    /\ dopc = "idle"
    /\ ret = NoRet
    /\ errsSeen = <<>>
    /\ prevRet = NoRet
    /\ calls = 0
    /\ WalIdle

\* Lines 29-47: split, derive the cancellable context, make the channel and
\* start one goroutine per sub-query.
DoCall ==
    /\ dopc \in {"idle", "returned"}
    /\ calls < MaxCalls
    /\ reqs' = splitQuery(q)
    /\ task' = [i \in 1..Len(reqs') |-> "running"]
    /\ out' = [i \in 1..Len(reqs') |-> NoRet]
    /\ cancelled' = FALSE
    /\ firstErr' = NoErr
    /\ responses' = <<>>
    /\ received' = 0
    /\ dopc' = "gather"
    /\ ret' = NoRet
    /\ errsSeen' = <<>>
    /\ prevRet' = ret
    /\ calls' = calls + 1
    /\ UNCHANGED <<q, spc, down, walVars>>

\* Line 39: downstream.Do(ctx, req) returns. Under a cancelled context it may
\* return the context's error instead of its answer.
DownstreamReturn(i) ==
    /\ task[i] = "running"
    /\ \E o \in {Answer(i, down[i])} \cup (IF cancelled THEN {[resp |-> NilResp, err |-> ErrCanceled]} ELSE {}) :
          out' = [out EXCEPT ![i] = o]
    /\ task' = [task EXCEPT ![i] = "sending"]
    /\ UNCHANGED <<q, reqs, spc, down, cancelled, firstErr, responses, received,
                   dopc, ret, errsSeen, prevRet, calls, walVars>>

\* A gather loop without the `firstErr == nil` test: the last error wins.
recordErrLast(first, err) == err

\* Lines 56-59: only the first error is kept.
recordErr(first, err) == IF first = NoErr THEN err ELSE first

\* A gather loop that stops draining at the first error.
gatherDoneOrFailed == received = Len(reqs) \/ firstErr # NoErr

\* Line 52: `for range reqs` has run len(reqs) times.
gatherDone == received = Len(reqs)

\* Lines 52-65: one iteration of the gather loop; the unbuffered channel hands
\* over the response of a goroutine blocked in its send (lines 41-45).
Receive(i) ==
    /\ dopc = "gather"
    /\ ~gatherDone
    /\ task[i] = "sending"
    /\ task' = [task EXCEPT ![i] = "done"]
    /\ received' = received + 1
    /\ IF out[i].err # NoErr
       THEN /\ firstErr' = recordErr(firstErr, out[i].err)
            /\ cancelled' = (cancelled \/ firstErr = NoErr)
            /\ errsSeen' = Append(errsSeen, out[i].err)
            /\ UNCHANGED responses
       ELSE /\ responses' = Append(responses,
                                   [req |-> reqs[i], resp |-> out[i].resp,
                                    err |-> out[i].err])
            /\ UNCHANGED <<firstErr, cancelled, errsSeen>>
    /\ UNCHANGED <<q, reqs, spc, down, out, dopc, ret, prevRet, calls, walVars>>

\* Lines 66-85 and the deferred cancel of line 34.
DoReturn ==
    /\ dopc = "gather"
    /\ gatherDone
    /\ IF firstErr # NoErr
       THEN ret' = [resp |-> NilResp, err |-> firstErr]
       ELSE \E order \in MapOrders(responses) :
               ret' = mergeResponses(responses, order)
    /\ dopc' = IF ret' = PanicRet THEN "panicked" ELSE "returned"
    /\ cancelled' = TRUE
    /\ UNCHANGED <<q, reqs, spc, down, task, out, firstErr, responses, received,
                   errsSeen, prevRet, calls, walVars>>

NextDo ==
    \/ DoCall
    \/ \E i \in 1..Len(reqs) : DownstreamReturn(i)
    \/ \E i \in 1..Len(reqs) : Receive(i)
    \/ DoReturn

SpecDo == InitDo /\ [][NextDo]_vars

\* The merge alone: Do at the end of its gather loop, every sub-query answered
\* without error, the responses in any arrival order.
InitMerge ==
    /\ q \in DoQueries
    /\ reqs = splitQuery(q)
    /\ spc = "idle"
    /\ down \in [1..Len(reqs) -> MergeChoices]
    /\ task = [i \in 1..Len(reqs) |-> "done"]
    /\ out = [i \in 1..Len(reqs) |-> Answer(i, down[i])]
    /\ cancelled = FALSE
    /\ firstErr = NoErr
    /\ \E arrival \in Perms(1..Len(reqs)) :
          responses = [k \in 1..Len(reqs) |->
                          [req |-> reqs[arrival[k]], resp |-> out[arrival[k]].resp,
                           err |-> NoErr]]
    /\ received = Len(reqs)
    /\ dopc = "gather"
    /\ ret = NoRet
    /\ errsSeen = <<>>
    /\ prevRet = NoRet
    /\ calls = 1
    /\ WalIdle

NextMerge == DoReturn

SpecMerge == InitMerge /\ [][NextMerge]_vars


----------------------------------------------------------------------------
(* Claims about the fan-out *)

DoEnded == dopc \in {"returned", "panicked"}

\* C3 as stated: the first failing response cancels the scope, Do returns
\* exactly the first observed error and no response, a later error never
\* replaces it, and Do returns an error if and only if some sub-query
\* response carried an error.
C3_ErrorIffSubQueryError ==
    /\ errsSeen # <<>> => cancelled /\ firstErr = errsSeen[1]
    /\ dopc = "returned" =>
          /\ errsSeen # <<>> => ret = [resp |-> NilResp, err |-> errsSeen[1]]
          /\ (ret.err # NoErr) <=> (errsSeen # <<>>)

\* C3 amended: as above, but Do returns a sub-query's error if and only if
\* some sub-query response carried one; with no failing sub-query the only
\* error Do can return is the merge's "unexpected response type".
C3_FirstErrorPropagation ==
    /\ errsSeen # <<>> => cancelled /\ firstErr = errsSeen[1]
    /\ errsSeen = <<>> => firstErr = NoErr
    /\ dopc = "returned" =>
          /\ errsSeen # <<>> => ret = [resp |-> NilResp, err |-> errsSeen[1]]
          /\ errsSeen = <<>> => ret.err \in {NoErr, ErrUnexpected}

\* Do has returned the first error although a cancellation error provoked by
\* its own cancel arrived later.
C3_Witness ==
    /\ dopc = "returned"
    /\ Len(errsSeen) >= 2
    /\ errsSeen[1].msg = "downstream"
    /\ \E k \in 2..Len(errsSeen) : errsSeen[k] = ErrCanceled
    /\ ret.err = errsSeen[1]

\* C4: once Do has ended it has received exactly one response from every
\* dispatched sub-query, and no goroutine is still running or blocked in its
\* send, after a cancellation as in the success case.
C4_NoLeakedSubTask ==
    DoEnded =>
        /\ received = Len(reqs)
        /\ Len(responses) + Len(errsSeen) = Len(reqs)
        /\ \A i \in 1..Len(reqs) : task[i] = "done"

\* Do has returned after cancelling: three sub-queries, one failed, and one
\* delivered the cancellation error it ran into.
C4_Witness ==
    /\ dopc = "returned"
    /\ Len(reqs) = 3
    /\ \E k \in 1..Len(errsSeen) : errsSeen[k] = ErrCanceled
    /\ Len(responses) >= 1
    /\ \A i \in 1..Len(reqs) : task[i] = "done"

\* C5: for a fixed set of successful sub-query responses Do returns the same
\* merged response whatever the arrival order: a second call on the same
\* answers returns what the first returned.
C5_ArrivalOrderIndependent ==
    (/\ dopc = "returned"
     /\ calls = 2
     /\ errsSeen = <<>>
     /\ prevRet.err \in {NoErr, ErrUnexpected})
        => ret = prevRet

----------------------------------------------------------------------------
(* Claims about the merge *)

\* The label sets occurring in the sub-queries' answers.
PresentMetrics ==
    UNION {{down[i].shape[j] : j \in 1..Len(down[i].shape)} : i \in 1..Len(reqs)}

StreamsOf(i, m) ==
    LET r == Answer(i, down[i]).resp.Result
    IN  SelectSeq(r, LAMBDA st : st.metric = m)

RECURSIVE concatValues(_)
concatValues(streams) ==
    IF streams = <<>> THEN <<>>
    ELSE Head(streams).values \o concatValues(Tail(streams))

\* Label set m's values, sub-query by sub-query in ascending start order
\* (splitQuery emits the sub-queries in that order).
RECURSIVE expectedValues(_, _)
expectedValues(m, i) ==
    IF i > Len(reqs) THEN <<>>
    ELSE concatValues(StreamsOf(i, m)) \o expectedValues(m, i + 1)

MergedMatrix ==
    /\ dopc = "returned"
    /\ ret.err = NoErr
    /\ ret.resp.ResultType = "matrix"

\* The entries of the merged matrix that are streams of label set m.
EntriesOf(m) ==
    {k \in 1..Len(ret.resp.Result) :
        /\ ret.resp.Result[k] # NilStream
        /\ ret.resp.Result[k].metric = m}

\* C6: for every label set in some sub-response's matrix, the merged stream of
\* that label set holds the concatenation of its values from the
\* sub-responses in ascending sub-query start order.
C6_MergerCorrectness ==
    MergedMatrix =>
        \A m \in PresentMetrics :
            /\ EntriesOf(m) # {}
            /\ \A k \in EntriesOf(m) :
                  ret.resp.Result[k].values = expectedValues(m, 1)

\* Two sub-queries, the later one arrived first, one label set in both: the
\* merged stream is [(0,0),(1,1),(2,2),(3,3)].
C6_Witness ==
    /\ MergedMatrix
    /\ Len(reqs) = 2
    /\ responses[1].req.start > responses[2].req.start
    /\ \E k \in EntriesOf(M0) :
          ret.resp.Result[k].values =
              <<[t |-> 0, v |-> 0], [t |-> 1, v |-> 1],
                [t |-> 2, v |-> 2], [t |-> 3, v |-> 3]>>

\* C7: the merged matrix holds exactly one stream per distinct label set of
\* the sub-responses, and nothing else.
C7_OneStreamPerLabelSet ==
    MergedMatrix =>
        /\ Len(ret.resp.Result) = Cardinality(PresentMetrics)
        /\ \A k \in 1..Len(ret.resp.Result) : ret.resp.Result[k] # NilStream
        /\ \A m \in PresentMetrics : Cardinality(EntriesOf(m)) = 1


----------------------------------------------------------------------------
(* Ingester WAL: wal.go *)

MaxFP == 2
MaxRecords == 2
MaxSeg == 2
MaxCpEntries == 2
MaxCrashes == 1

\* Fingerprints of one tenant.
FPs == 1..MaxFP

\* A Record of one sample; `labels` declares the series the push found missing.
RecordOf(fp, id, known) ==
    [labels |-> IF fp \in known THEN {} ELSE {fp}, samples |-> <<[fp |-> fp, id |-> id]>>]

\* wal.Truncate(i): the segments below i are removed.
truncateTo(first, i) == Max(first, i)

\* A truncation that forgets to store the segment it read.
keptMarker(ok, last, marker) == marker

\* A truncation that stores the segment it read before looking at the error.
movedAlways(ok, last, marker) == last

\* Lines 183 and 218: the marker takes the `last` read before the Truncate,
\* and only when the Truncate succeeded.
movedMarker(ok, last, marker) == IF ok THEN last ELSE marker

\* wal.Truncate(i) on a log whose first segment is `first`: `upto` is the
\* first segment afterwards. It removes the segments below i one after the
\* other and returns the first error, so that a failing call leaves at least
\* the segment it failed on.
truncated(ok, first, upto, i) ==
    /\ upto \in first..truncateTo(first, i)
    /\ ok => upto = truncateTo(first, i)
    /\ ~ok => upto = first \/ upto < truncateTo(first, i)

KeepFrom(log, first) == SelectSeq(log, LAMBDA e : e.seg >= first)

\* recover, lines 226-246: a Series of the Checkpoint Log installs the
\* series with the snapshot's chunks; a later entry wins.
recoverSeries(state, e) ==
    IF e.fp \in DOMAIN state
    THEN [state EXCEPT ![e.fp] = e.chunks]
    ELSE state @@ (e.fp :> e.chunks)

RECURSIVE recoverCheckpoints(_, _)
recoverCheckpoints(state, log) ==
    IF log = <<>> THEN state
    ELSE recoverCheckpoints(recoverSeries(state, Head(log)), Tail(log))

\* Lines 259-269: the declared series that are missing are created.
createDeclared(state, labels) ==
    [fp \in DOMAIN state \cup labels |->
        IF fp \in DOMAIN state THEN state[fp] ELSE {}]

\* Lines 271-284: the samples in order; at a sample without series the
\* callback returns nil, leaving the rest of the Record.
RECURSIVE replaySamples(_, _)
replaySamples(state, samples) ==
    IF samples = <<>> THEN state
    ELSE LET sm == Head(samples)
         IN  IF sm.fp \notin DOMAIN state
             THEN state
             ELSE replaySamples([state EXCEPT ![sm.fp] = @ \cup {sm.id}],
                                Tail(samples))

recoverRecord(state, rec) ==
    replaySamples(createDeclared(state, rec.labels), rec.samples)

RECURSIVE recoverSamples(_, _)
recoverSamples(state, log) ==
    IF log = <<>> THEN state
    ELSE recoverSamples(recoverRecord(state, Head(log).rec), Tail(log))

\* A recovery that replays into the ingester's present userStates.
keptUserStates(prev) == prev

\* Line 224: recover works on a local userStates of its own, newly made.
freshUserStates(prev) == <<>>

\* recover, lines 222-296, when no read fails, run in an ingester whose
\* userStates is `prev`: checkpoints, then samples; the result is what lines
\* 291-293 install.
recoverOver(prev, cp, smp) ==
    recoverSamples(recoverCheckpoints(freshUserStates(prev), cp), smp)

\* recover at startup, when the ingester holds nothing.
recover(cp, smp) == recoverOver(<<>>, cp, smp)

InitWal ==
    /\ q = [path |-> "", start |-> 0, end |-> 0, step |-> 1, query |-> ""]
    /\ reqs = <<>>
    /\ spc = "idle"
    /\ DoIdle
    /\ WalIdle

\* newWAL, lines 65-103, with cfg.enabled and cfg.recover set: the error of
\* w.recover is dropped, the loop is started and (w, nil) is returned.
NewWAL ==
    /\ life = "down"
    /\ \E readFails \in BOOLEAN :
          /\ mem' = IF readFails THEN mem ELSE recover(cpLog, smpLog)
          /\ recoverFailed' = readFails
    /\ life' = "up"
    /\ newResult' = "ok"
    /\ runpc' = "top"
    /\ quit' = FALSE
    /\ closed' = FALSE
    /\ stoppc' = "idle"
    /\ lastCheckpointSegment' = 0
    /\ lastSamplesSegment' = 0
    /\ passStart' = -1
    /\ prevStart' = -1
    /\ okStart' = -1
    /\ UNCHANGED <<splitVars, doVars, recVars, cpHist, inflight, nextId, diskVars, passVars, crashes>>

\* wrapper.Log, lines 113-119: the Record is appended to the Sample Log, in
\* the last segment or in a new one when that is full. On an error nothing
\* is appended and the push is refused.
Log(fp, roll, ok) ==
    /\ life = "up"
    /\ ~closed
    /\ nextId <= MaxRecords
    /\ roll => ok /\ smpLast < MaxSeg
    /\ IF ok
       THEN LET rec == RecordOf(fp, nextId, DOMAIN mem)
                seg == IF roll THEN smpLast + 1 ELSE smpLast
            IN  /\ smpLog' = Append(smpLog, [seg |-> seg, rec |-> rec])
                /\ smpLast' = seg
                /\ inflight' = inflight \cup {rec}
                /\ nextId' = nextId + 1
       ELSE UNCHANGED <<smpLog, smpLast, inflight, nextId>>
    /\ UNCHANGED <<splitVars, doVars, recVars, cpHist, life, mem, smpFirst, cpLog, cpFirst, cpLast, markVars, quit,
                   runpc, passVars, stoppc, closed, newResult, recoverFailed,
                   crashes, histVars>>

\* The push that logged `rec` adds its samples to userStates, under the
\* locks of their fingerprints.
Apply(rec) ==
    /\ life = "up"
    /\ rec \in inflight
    /\ \A i \in 1..Len(rec.samples) : rec.samples[i].fp \notin fpLock
    /\ mem' = LET fps == {rec.samples[i].fp : i \in 1..Len(rec.samples)}
                  idsOf(fp) == {rec.samples[i].id : i \in {k \in 1..Len(rec.samples) : rec.samples[k].fp = fp}}
              IN  [fp \in DOMAIN mem \cup fps |->
                      (IF fp \in DOMAIN mem THEN mem[fp] ELSE {}) \cup idsOf(fp)]
    /\ inflight' = inflight \ {rec}
    /\ UNCHANGED <<splitVars, doVars, recVars, cpHist, life, nextId, diskVars, markVars, quit, runpc, passVars,
                   stoppc, closed, newResult, recoverFailed, crashes, histVars>>

\* Lines 148-151: the series of all tenants are counted.
numSeries == Cardinality(DOMAIN mem)

\* A checkpoint that goes on to its truncation with nothing to write.
afterCountNoReturn == IF numSeries = 0 THEN "cp_segments" ELSE "series"

\* Lines 152-159: with no series checkpoint returns nil, and run goes on to
\* truncateSamples; otherwise the series are iterated.
afterCount == IF numSeries = 0 THEN "ts_segments" ELSE "series"

\* run, line 124, and checkpoint, lines 147-159: the loop test, the count of
\* the series and the start of the iteration over them.
RunTop ==
    /\ runpc = "top"
    /\ IF quit
       THEN /\ runpc' = "exited"
            /\ UNCHANGED <<todo, passStart, prevStart, cpHist>>
       ELSE /\ passStart' = smpLast
            /\ prevStart' = passStart
            /\ runpc' = afterCount
            /\ todo' = IF numSeries = 0 THEN todo ELSE DOMAIN mem
            /\ passSeg' = -1
            /\ fullSeg' = IF numSeries = 0 THEN -1 ELSE fullSeg
            /\ doneSeg' = IF numSeries = 0 THEN -1 ELSE doneSeg
    /\ UNCHANGED <<splitVars, doVars, recVars, life, mem, inflight, nextId, diskVars, markVars, quit, cur,
                   cpErr, lastRead, fpLock, stoppc, closed, newResult,
                   recoverFailed, crashes, okStart>>

\* Line 161: state.fpLocker.Lock(pair.fp) for the next series of the iteration.
LockSeries(fp) ==
    /\ runpc = "series"
    /\ fp \in todo
    /\ fp \notin fpLock
    /\ fpLock' = fpLock \cup {fp}
    /\ cur' = fp
    /\ todo' = todo \ {fp}
    /\ runpc' = "locked"
    /\ UNCHANGED <<splitVars, doVars, recVars, cpHist, life, mem, inflight, nextId, diskVars, markVars, quit, cpErr,
                   lastRead, stoppc, closed, newResult, recoverFailed, crashes,
                   histVars>>

\* Line 162, checkpointSeries, lines 188-205: the series' chunks are appended
\* to the Checkpoint Log as one Series, or an error is returned. The step is
\* explored while the log holds fewer than `cap` entries.
CheckpointSeries(roll, ok, cap) ==
    /\ runpc = "locked"
    /\ roll => ok /\ cpLast < MaxSeg
    /\ ok => Len(cpLog) < cap
    /\ IF ok
       THEN LET seg == IF roll THEN cpLast + 1 ELSE cpLast
            IN  /\ cpLog' = Append(cpLog, [seg |-> seg, fp |-> cur, chunks |-> mem[cur]])
                /\ cpLast' = seg
                /\ passSeg' = IF passSeg = -1 THEN seg ELSE passSeg
       ELSE UNCHANGED <<cpLog, cpLast, passSeg>>
    /\ cpErr' = ~ok
    /\ runpc' = "unlock"
    /\ UNCHANGED <<splitVars, doVars, recVars, fullSeg, doneSeg, life, mem, inflight, nextId, smpLog, smpFirst, smpLast,
                   cpFirst, markVars, quit, todo, cur, lastRead, fpLock, stoppc,
                   closed, newResult, recoverFailed, crashes, histVars>>

\* An Unlock that is skipped when checkpointSeries failed.
unlockedOnSuccess == IF cpErr THEN fpLock ELSE fpLock \ {cur}

\* Line 163: state.fpLocker.Unlock(pair.fp), before the error is looked at.
unlocked == fpLock \ {cur}

\* Lines 163-166: the lock is released; an error ends the pass, and run starts
\* the next one.
UnlockSeries ==
    /\ runpc = "unlock"
    /\ fpLock' = unlocked
    /\ cur' = 0
    /\ cpErr' = FALSE
    /\ runpc' = IF cpErr THEN "top" ELSE "wait"
    /\ todo' = IF cpErr THEN {} ELSE todo
    /\ UNCHANGED <<splitVars, doVars, recVars, cpHist, life, mem, inflight, nextId, diskVars, markVars, quit,
                   lastRead, stoppc, closed, newResult, recoverFailed, crashes,
                   histVars>>

\* A select without the quit case.
quitCaseMissing == FALSE

\* Line 170: `case <-w.quit` is ready once the channel is closed.
quitCase == quit

\* Lines 168-171: the select returns on the ticker (byQuit = FALSE), whenever
\* that fires, or on the closed quit.
Tick(byQuit) ==
    /\ runpc = "wait"
    /\ byQuit => quitCase
    /\ runpc' = IF todo = {} THEN "cp_segments" ELSE "series"
    /\ fullSeg' = IF todo = {} THEN passSeg ELSE fullSeg
    /\ UNCHANGED <<splitVars, doVars, recVars, passSeg, doneSeg, life, mem, inflight, nextId, diskVars, markVars, quit,
                   passVars, stoppc, closed, newResult, recoverFailed, crashes,
                   histVars>>

\* Line 176: w.checkpoints.Segments().
CheckpointSegments(ok) ==
    /\ runpc = "cp_segments"
    /\ lastRead' = IF ok THEN cpLast ELSE lastRead
    /\ runpc' = IF ok THEN "cp_truncate" ELSE "top"
    /\ UNCHANGED <<splitVars, doVars, recVars, cpHist, life, mem, inflight, nextId, diskVars, markVars, quit, todo,
                   cur, cpErr, fpLock, stoppc, closed, newResult, recoverFailed,
                   crashes, histVars>>

\* A truncation up to the segment that was just read.
cpTruncateToLast == lastRead

\* Line 180: the argument of w.checkpoints.Truncate.
cpTruncateTo == lastCheckpointSegment

\* Lines 180-185: the Checkpoint Log is truncated to lastCheckpointSegment and
\* the marker is moved. A failing Truncate has removed some of the segments
\* below the marker, not all of them.
CheckpointTruncate(ok, upto) ==
    /\ runpc = "cp_truncate"
    /\ truncated(ok, cpFirst, upto, cpTruncateTo)
    /\ cpFirst' = upto
    /\ cpLog' = KeepFrom(cpLog, upto)
    /\ lastCheckpointSegment' = movedMarker(ok, lastRead, lastCheckpointSegment)
    /\ runpc' = IF ok THEN "ts_segments" ELSE "top"
    /\ doneSeg' = IF ok THEN passSeg ELSE doneSeg
    /\ UNCHANGED <<splitVars, doVars, recVars, passSeg, fullSeg, life, mem, inflight, nextId, smpLog, smpFirst, smpLast,
                   cpLast, lastSamplesSegment, quit, passVars, stoppc, closed,
                   newResult, recoverFailed, crashes, histVars>>

\* truncateSamples, line 209: w.samples.Segments().
SamplesSegments(ok) ==
    /\ runpc = "ts_segments"
    /\ lastRead' = IF ok THEN smpLast ELSE lastRead
    /\ runpc' = IF ok THEN "ts_truncate" ELSE "top"
    /\ UNCHANGED <<splitVars, doVars, recVars, cpHist, life, mem, inflight, nextId, diskVars, markVars, quit, todo,
                   cur, cpErr, fpLock, stoppc, closed, newResult, recoverFailed,
                   crashes, histVars>>

\* truncateSamples, lines 214-219.
SamplesTruncate(ok, upto) ==
    /\ runpc = "ts_truncate"
    /\ truncated(ok, smpFirst, upto, lastSamplesSegment)
    /\ smpFirst' = upto
    /\ smpLog' = KeepFrom(smpLog, upto)
    /\ lastSamplesSegment' = movedMarker(ok, lastRead, lastSamplesSegment)
    /\ runpc' = IF ok THEN "ts_done" ELSE "top"
    /\ UNCHANGED <<splitVars, doVars, recVars, cpHist, life, mem, inflight, nextId, smpLast,
                   cpLog, cpFirst, cpLast, lastCheckpointSegment, quit, passVars,
                   stoppc, closed, newResult, recoverFailed, crashes, histVars>>

\* run, lines 130-134: truncateSamples returned nil and the loop goes round.
RunAgain ==
    /\ runpc = "ts_done"
    /\ runpc' = "top"
    /\ okStart' = passStart
    /\ UNCHANGED <<splitVars, doVars, recVars, cpHist, life, mem, inflight, nextId, diskVars,
                   markVars, quit, passVars, stoppc, closed, newResult,
                   recoverFailed, crashes, passStart, prevStart>>

\* Stop, line 106: close(w.quit); closing a closed channel panics.
StopCall ==
    /\ life = "up"
    /\ stoppc \in {"idle", "returned"}
    /\ stoppc' = IF quit THEN "panicked" ELSE "waiting"
    /\ quit' = TRUE
    /\ UNCHANGED <<splitVars, doVars, recVars, cpHist, life, mem, inflight, nextId, diskVars, markVars, runpc,
                   passVars, closed, newResult, recoverFailed, crashes, histVars>>

\* A Wait that returns at once.
waitSkipped == TRUE

\* Lines 100, 107 and 122: w.wait.Wait() returns once run's deferred
\* w.wait.Done() has run.
waitReturns == runpc = "exited"

\* Stop, lines 107-110: w.wait.Wait() returns once run has exited, then both
\* logs are closed.
StopJoin ==
    /\ stoppc = "waiting"
    /\ waitReturns
    /\ closed' = TRUE
    /\ stoppc' = "returned"
    /\ UNCHANGED <<splitVars, doVars, recVars, cpHist, life, mem, inflight, nextId, diskVars, markVars, quit, runpc,
                   passVars, newResult, recoverFailed, crashes, histVars>>

\* The process dies: memory and goroutines are gone, the two logs stay.
Crash ==
    /\ life = "up"
    /\ crashes < MaxCrashes
    /\ crashes' = crashes + 1
    /\ life' = "down"
    /\ mem' = <<>>
    /\ inflight' = {}
    /\ quit' = FALSE
    /\ runpc' = "off"
    /\ todo' = {}
    /\ cur' = 0
    /\ cpErr' = FALSE
    /\ lastRead' = 0
    /\ fpLock' = {}
    /\ stoppc' = "idle"
    /\ closed' = FALSE
    /\ newResult' = "none"
    /\ recoverFailed' = FALSE
    /\ lastCheckpointSegment' = 0
    /\ lastSamplesSegment' = 0
    /\ passStart' = -1
    /\ prevStart' = -1
    /\ okStart' = -1
    /\ UNCHANGED <<splitVars, doVars, recVars, cpHist, nextId, diskVars>>

NextWal ==
    \/ NewWAL
    \/ \E fp \in FPs, roll, ok \in BOOLEAN : Log(fp, roll, ok)
    \/ \E rec \in inflight : Apply(rec)
    \/ RunTop
    \/ \E fp \in FPs : LockSeries(fp)
    \/ \E roll, ok \in BOOLEAN : CheckpointSeries(roll, ok, MaxCpEntries)
    \/ UnlockSeries
    \/ \E byQuit \in BOOLEAN : Tick(byQuit)
    \/ \E ok \in BOOLEAN : CheckpointSegments(ok)
    \/ \E ok \in BOOLEAN, upto \in 0..MaxSeg : CheckpointTruncate(ok, upto)
    \/ \E ok \in BOOLEAN : SamplesSegments(ok)
    \/ \E ok \in BOOLEAN, upto \in 0..MaxSeg : SamplesTruncate(ok, upto)
    \/ RunAgain
    \/ StopCall
    \/ StopJoin
    \/ Crash

SpecWal == InitWal /\ [][NextWal]_vars

\* wrapper.recover on its own, on bounded contents of the two logs and
\* bounded ingester states.
MaxRecLog == 1
MaxRecSamples == 2
MaxRecCp == 1

\* What a Record is made of: the series it declares, among those it has
\* samples of, and the fingerprints of its samples in order.
RecordShapes ==
    {sh \in [labels : SUBSET FPs,
             fps : UNION {[1..k -> FPs] : k \in 0..MaxRecSamples}] :
        sh.labels \subseteq {sh.fps[j] : j \in 1..Len(sh.fps)}}

\* The Sample Log holding Records of the shapes shs; sample j of Record i has
\* the identity 10 * i + j.
SampleLogOf(shs) ==
    [i \in 1..Len(shs) |->
        [seg |-> 0,
         rec |-> [labels |-> shs[i].labels,
                  samples |-> [j \in 1..Len(shs[i].fps) |->
                                  [fp |-> shs[i].fps[j], id |-> 10 * i + j]]]]]

SampleLogs ==
    {SampleLogOf(shs) : shs \in UNION {[1..n -> RecordShapes] : n \in 0..MaxRecLog}}

\* Checkpoint Logs: snapshots of series fp with the chunk 100 + fp.
CheckpointLogs ==
    {[i \in 1..Len(fs) |-> [seg |-> 0, fp |-> fs[i], chunks |-> {100 + fs[i]}]] :
        fs \in UNION {[1..n -> FPs] : n \in 0..MaxRecCp}}

\* States of the ingester's userStates when recover is called: no series, or
\* every series, each holding the sample 0.
PriorStates == {[fp \in S |-> {0}] : S \in {{}, FPs}}

InitRecover ==
    /\ q = [path |-> "", start |-> 0, end |-> 0, step |-> 1, query |-> ""]
    /\ reqs = <<>>
    /\ spc = "idle"
    /\ DoIdle
    /\ WalQuiet
    /\ recpc = "ready"
    /\ mem \in PriorStates
    /\ smpLog \in SampleLogs
    /\ cpLog \in CheckpointLogs

\* w.recover(ctx), lines 222-296: the two logs are replayed into a local
\* userStates, which then replaces the ingester's; a read error returns
\* before anything is installed.
RecoverRun(readFails) ==
    /\ recpc \in {"ready", "once"}
    /\ IF readFails
       THEN UNCHANGED <<mem, recpc, recFirst>>
       ELSE /\ mem' = recoverOver(mem, cpLog, smpLog)
            /\ recpc' = IF recpc = "ready" THEN "once" ELSE "twice"
            /\ recFirst' = IF recpc = "ready" THEN mem' ELSE recFirst
    /\ UNCHANGED <<splitVars, doVars, cpHist, life, inflight, nextId, diskVars,
                   markVars, quit, runpc, passVars, stoppc, closed, newResult,
                   recoverFailed, crashes, histVars>>

\* Between two runs the ingester's userStates becomes any other state.
Ingest(st) ==
    /\ recpc = "once"
    /\ mem' = st
    /\ UNCHANGED <<splitVars, doVars, recVars, cpHist, life, inflight, nextId,
                   diskVars, markVars, quit, runpc, passVars, stoppc, closed,
                   newResult, recoverFailed, crashes, histVars>>

NextRecover ==
    \/ \E readFails \in BOOLEAN : RecoverRun(readFails)
    \/ \E st \in PriorStates : Ingest(st)

SpecRecover == InitRecover /\ [][NextRecover]_vars

\* The checkpoint loop and Stop on their own, on a memory store that pushes
\* have filled and no longer change.
MaxPassSeries == 3
MaxPassEntries == 6

\* The Sample Log after n pushes of one sample each, all in segment 0.
Pushed(n) ==
    [i \in 1..n |-> [seg |-> 0, rec |-> RecordOf(i, i, 1..(i - 1))]]

\* The state after newWAL on an empty directory and n pushes, before the
\* first step of run.
PassStart(n) ==
    /\ q = [path |-> "", start |-> 0, end |-> 0, step |-> 1, query |-> ""]
    /\ reqs = <<>>
    /\ spc = "idle"
    /\ DoIdle
    /\ mem = [fp \in 1..n |-> {fp}]
    /\ smpLog = Pushed(n)
    /\ nextId = n + 1
    /\ life = "up"
    /\ newResult = "ok"
    /\ runpc = "top"
    /\ recpc = "idle"
    /\ inflight = {}
    /\ smpFirst = 0
    /\ smpLast = 0
    /\ cpLog = <<>>
    /\ cpFirst = 0
    /\ cpLast = 0
    /\ lastCheckpointSegment = 0
    /\ lastSamplesSegment = 0
    /\ quit = FALSE
    /\ todo = {}
    /\ cur = 0
    /\ cpErr = FALSE
    /\ lastRead = 0
    /\ fpLock = {}
    /\ stoppc = "idle"
    /\ closed = FALSE
    /\ recoverFailed = FALSE
    /\ crashes = 0
    /\ passStart = -1
    /\ prevStart = -1
    /\ okStart = -1
    /\ passSeg = -1
    /\ fullSeg = -1
    /\ doneSeg = -1
    /\ recFirst = <<>>

InitPass == \E n \in 0..MaxPassSeries : PassStart(n)

NextPass ==
    \/ RunTop
    \/ \E fp \in 1..MaxPassSeries : LockSeries(fp)
    \/ \E roll, ok \in BOOLEAN : CheckpointSeries(roll, ok, MaxPassEntries)
    \/ UnlockSeries
    \/ \E byQuit \in BOOLEAN : Tick(byQuit)
    \/ \E ok \in BOOLEAN : CheckpointSegments(ok)
    \/ \E ok \in BOOLEAN, upto \in 0..MaxSeg : CheckpointTruncate(ok, upto)
    \/ \E ok \in BOOLEAN : SamplesSegments(ok)
    \/ \E ok \in BOOLEAN, upto \in 0..MaxSeg : SamplesTruncate(ok, upto)
    \/ RunAgain
    \/ StopCall
    \/ StopJoin

SpecPass == InitPass /\ [][NextPass]_vars

\* The same loop under shutdown, with the scheduling of the run goroutine and
\* of Stop: a goroutine that can take a step takes it, every log operation
\* and Lock returns, and nothing is assumed of the ticker.
InitStop == \E n \in 0..MaxFP : PassStart(n)

\* The steps of the run goroutine that wait for nothing but the goroutine
\* itself.
LoopStep ==
    \/ RunTop
    \/ \E fp \in FPs : LockSeries(fp)
    \/ \E roll, ok \in BOOLEAN : CheckpointSeries(roll, ok, MaxCpEntries)
    \/ UnlockSeries
    \/ Tick(TRUE)
    \/ \E ok \in BOOLEAN : CheckpointSegments(ok)
    \/ \E ok \in BOOLEAN, upto \in 0..MaxSeg : CheckpointTruncate(ok, upto)
    \/ \E ok \in BOOLEAN : SamplesSegments(ok)
    \/ \E ok \in BOOLEAN, upto \in 0..MaxSeg : SamplesTruncate(ok, upto)
    \/ RunAgain

NextStop ==
    \/ LoopStep
    \/ Tick(FALSE)
    \/ StopCall
    \/ StopJoin

SpecStop ==
    InitStop /\ [][NextStop]_vars /\ WF_vars(LoopStep) /\ WF_vars(StopJoin)


----------------------------------------------------------------------------
(* Claims about the WAL *)

\* What a recovery would rebuild from the two logs as they are on disk.
Recovered == recover(cpLog, smpLog)

\* C1: whatever the interleaving of Log calls, pushes, checkpoint passes,
\* truncations and a crash, replaying the Checkpoint Log and then the Sample
\* Log yields every sample that is in the memory store.
C1_NoLossThroughTruncation ==
    \A fp \in DOMAIN mem :
        /\ fp \in DOMAIN Recovered
        /\ mem[fp] \subseteq Recovered[fp]

\* C8: a Stop after a completed Stop returns normally.
C8_StopIdempotent == stoppc # "panicked"

\* C9: when w.recover fails, newWAL returns the error and does not start
\* the checkpoint loop.
C9_RecoveryFailureFatal ==
    recoverFailed => newResult = "error" /\ runpc = "off"

\* C10 as stated: after the truncateSamples that follows a completed pass,
\* the first sample-log segment is strictly greater than every segment that
\* existed when the previous pass started.
C10_FirstAbovePreviousPass ==
    (runpc = "ts_done" /\ prevStart >= 0) => smpFirst > prevStart

\* C10 amended: after a successful truncateSamples the first sample-log
\* segment is greater than or equal to every segment that existed at the start
\* of the last earlier pass whose truncateSamples succeeded.
C10_FirstNotBelowTruncatedPass ==
    (runpc = "ts_done" /\ okStart >= 0) => smpFirst >= okStart

\* truncateSamples has just removed segment 0 and kept segment 1, the newest
\* segment there was when the previous pass, which also truncated, started.
C10_Witness ==
    /\ runpc = "ts_done"
    /\ okStart = 1
    /\ prevStart = 1
    /\ smpFirst = 1
    /\ lastSamplesSegment >= 1

\* C11: Stop closes the two logs only after it has closed quit and the run
\* goroutine has exited, so the background loop does no append, Segments read
\* or Truncate on a closed log.
C11_NoLoopUseAfterClose == closed => quit /\ runpc = "exited"

\* Stop has returned after a loop that had written to the Checkpoint Log.
C11_Witness == closed /\ stoppc = "returned" /\ runpc = "exited" /\ cpLog # <<>>

\* C15: within the life of a wrapper, lastCheckpointSegment changes only in
\* the step in which the Checkpoint Log's Truncate succeeded, after its
\* Segments read, and takes the `last` that was read; likewise
\* lastSamplesSegment and the Sample Log. Every other step, an aborting one
\* included, leaves the markers alone.
C15_MarkersMoveOnSuccess ==
    [][/\ (lastCheckpointSegment' # lastCheckpointSegment /\ life' = "up") =>
            /\ runpc = "cp_truncate"
            /\ runpc' = "ts_segments"
            /\ lastCheckpointSegment' = lastRead
            /\ cpFirst' = truncateTo(cpFirst, lastCheckpointSegment)
       /\ (lastSamplesSegment' # lastSamplesSegment /\ life' = "up") =>
            /\ runpc = "ts_truncate"
            /\ runpc' = "ts_done"
            /\ lastSamplesSegment' = lastRead
            /\ smpFirst' = truncateTo(smpFirst, lastSamplesSegment)]_vars

\* A pass read last = 1 from the Checkpoint Log, its Truncate failed, and the
\* marker is still 0.
C15_Witness ==
    /\ runpc = "top"
    /\ smpLast = 0
    /\ cpLast = 1
    /\ lastRead = 1
    /\ lastCheckpointSegment = 0

\* C16: the step of checkpoint() that finds no series returns nil (run goes on
\* to truncateSamples) and leaves the Checkpoint Log, its segments and
\* lastCheckpointSegment as they were.
C16_EmptyCheckpointNoEffect ==
    [][(runpc = "top" /\ ~quit /\ numSeries = 0 /\ runpc' # runpc /\ life' = "up") =>
            /\ runpc' = "ts_segments"
            /\ UNCHANGED <<cpLog, cpFirst, cpLast, lastCheckpointSegment>>]_vars

\* checkpoint() has just returned on an empty memory store while the
\* Checkpoint Log holds entries of an earlier life.
C16_Witness == runpc = "ts_segments" /\ numSeries = 0 /\ cpLog # <<>>

\* C17: the checkpointer holds exactly the lock of the series it is
\* converting and appending, from the Lock to the Unlock, never two locks, and
\* none at the loop test, at the select, in the truncations or after run
\* exited, whether or not the append failed.
C17_LockProtocol ==
    /\ Cardinality(fpLock) <= 1
    /\ runpc \in {"locked", "unlock"} => cur # 0 /\ fpLock = {cur}
    /\ runpc \notin {"locked", "unlock"} => fpLock = {}

\* checkpointSeries has failed and the lock is about to be released.
C17_Witness == runpc = "unlock" /\ cpErr /\ fpLock = {cur} /\ cur \in DOMAIN mem

\* C18 as stated: the Checkpoint Log holds every entry of the most recently
\* completed pass (the last pass whose checkpoint() returned nil): its first
\* entry's segment has not been removed.
C18_LastCompletedPassRetained == doneSeg >= 0 => cpFirst <= doneSeg

\* C18 amended: the Checkpoint Log holds every entry of the last pass that
\* wrote a snapshot of every series, whether or not that pass's own Truncate
\* then succeeded, and a pass's truncation removes only segments below the one
\* its first entry went to.
C18_LastFullPassRetained ==
    /\ fullSeg >= 0 => cpFirst <= fullSeg
    /\ passSeg >= 0 => cpFirst <= passSeg

\* A pass completed after an earlier completed pass, its Truncate removed
\* segment 0, and its own entries, in segment 1, are all there.
C18_Witness ==
    /\ runpc = "ts_segments"
    /\ doneSeg = 1
    /\ fullSeg = 1
    /\ cpFirst = 1
    /\ cpLog # <<>>

\* C13: once Stop has closed quit, the run goroutine exits and Stop returns,
\* with no help from the ticker and whatever errors the passes meet.
C13_ShutdownLiveness ==
    (quit ~> runpc = "exited") /\ (stoppc = "waiting" ~> stoppc = "returned")

\* The checkpointer is at the select with series left to write, and quit is
\* closed.
C13_Witness == quit /\ runpc = "wait" /\ todo # {} /\ stoppc = "waiting"

----------------------------------------------------------------------------
(* Further claims about the splitter *)

\* C19: nextDayBoundary(start, step) lies strictly below the next multiple of
\* millisecondPerDay above start, is congruent to start modulo step, and is
\* the largest such time (one step further reaches the day boundary).
C19_LastAlignedPointOfDay ==
    LET nb == nextDayBoundary(q.start, q.step)
        boundary == ((q.start \div millisecondPerDay) + 1) * millisecondPerDay
    IN  (spc = "done" /\ q.start >= 0 /\ q.step > 0) =>
            /\ nb < boundary
            /\ (nb - q.start) % q.step = 0
            /\ nb + q.step >= boundary

\* C20: for step > 0 and start < end, every sub-query splitQuery emitted has
\* start_i <= end_i.
C20_NoEmptySubQuery ==
    (spc = "done" /\ q.step > 0 /\ q.start < q.end) =>
        \A i \in 1..Len(reqs) : reqs[i].start <= reqs[i].end

----------------------------------------------------------------------------
(* Claims about recovery *)

\* C12: a second recovery from the same two logs installs the state the
\* first one installed, whatever the ingester held before either run.
C12_RecoveryIdempotent == recpc = "twice" => mem = recFirst

\* Two runs have installed a state with samples, from logs with a snapshot
\* and a Record.
C12_Witness ==
    /\ recpc = "twice"
    /\ cpLog # <<>>
    /\ smpLog # <<>>
    /\ \E fp \in DOMAIN mem : \E id \in mem[fp] : id < 100

\* Replay in which a sample without series is skipped on its own.
RECURSIVE replaySkipping(_, _)
replaySkipping(state, samples) ==
    IF samples = <<>> THEN state
    ELSE LET sm == Head(samples)
         IN  replaySkipping(IF sm.fp \in DOMAIN state
                            THEN [state EXCEPT ![sm.fp] = @ \cup {sm.id}]
                            ELSE state,
                            Tail(samples))

RECURSIVE recoverSkipping(_, _)
recoverSkipping(state, log) ==
    IF log = <<>> THEN state
    ELSE recoverSkipping(replaySkipping(createDeclared(state, Head(log).rec.labels),
                                        Head(log).rec.samples),
                         Tail(log))

\* C14: recovery installs what a replay gives that skips, on its own, each
\* sample whose series is absent and appends every other sample of the Record.
C14_SkippedOnItsOwn ==
    recpc \in {"once", "twice"} =>
        recFirst = recoverSkipping(recoverCheckpoints(<<>>, cpLog), smpLog)

====
